---- MODULE Spec2Model ----
(***************************************************************************)
(* Lost-and-found backend (siddarthan007/laf): the matching engine, the    *)
(* background matching task and the match lifecycle endpoints, as a state  *)
(* machine over the items and matches tables.                              *)
(*                                                                         *)
(* Scores are exact rationals <<numerator, denominator>> (denominator > 0, *)
(* lowest terms).  Embedding vectors are 2-dimensional integer vectors of  *)
(* norm 0 or 5, so that every cosine is a rational computed from the dot   *)
(* product and the norms as _cosine_similarity_fast computes it.  Strings  *)
(* are sequences of one-character strings.                                 *)
(***************************************************************************)
EXTENDS Integers, Sequences, FiniteSets, TLC

\* ------------------------------------------------------------------------
\* Exact arithmetic
\* ------------------------------------------------------------------------

Abs(x) == IF x < 0 THEN -x ELSE x

RECURSIVE GCD(_, _)
GCD(a, b) == IF b = 0 THEN a ELSE GCD(b, a % b)

Rat(n, d) ==
    LET s == IF d < 0 THEN -1 ELSE 1
        g == GCD(Abs(n), Abs(d))
    IN  <<(s * n) \div g, (s * d) \div g>>

RAdd(a, b) == Rat(a[1] * b[2] + b[1] * a[2], a[2] * b[2])
RSub(a, b) == Rat(a[1] * b[2] - b[1] * a[2], a[2] * b[2])
RMul(a, b) == Rat(a[1] * b[1], a[2] * b[2])
RDiv(a, b) == Rat(a[1] * b[2], a[2] * b[1])
RLe(a, b) == a[1] * b[2] <= b[1] * a[2]
RLt(a, b) == a[1] * b[2] < b[1] * a[2]
RGe(a, b) == RLe(b, a)
RGt(a, b) == RLt(b, a)
RMax(a, b) == IF RLt(a, b) THEN b ELSE a
RMin(a, b) == IF RLt(b, a) THEN b ELSE a
RAbs(a) == <<Abs(a[1]), a[2]>>

RZero == Rat(0, 1)
ROne == Rat(1, 1)

RECURSIVE RSum(_)
RSum(s) == IF s = <<>> THEN RZero ELSE RAdd(Head(s), RSum(Tail(s)))

\* ------------------------------------------------------------------------
\* Strings as sequences of characters
\* ------------------------------------------------------------------------

UpperChars ==
    <<"A", "B", "C", "D", "E", "F", "G", "H", "I", "J", "K", "L", "M",
      "N", "O", "P", "Q", "R", "S", "T", "U", "V", "W", "X", "Y", "Z">>

LowerChars ==
    <<"a", "b", "c", "d", "e", "f", "g", "h", "i", "j", "k", "l", "m",
      "n", "o", "p", "q", "r", "s", "t", "u", "v", "w", "x", "y", "z">>

Whitespace == {" ", "\t", "\n", "\r"}

LowerChar(c) ==
    IF \E i \in 1..Len(UpperChars) : UpperChars[i] = c
    THEN LowerChars[CHOOSE i \in 1..Len(UpperChars) : UpperChars[i] = c]
    ELSE c

\* str.lower()
Lower(s) == [i \in 1..Len(s) |-> LowerChar(s[i])]

\* str.strip()
Strip(s) ==
    LET keep == {i \in 1..Len(s) : s[i] \notin Whitespace}
    IN  IF keep = {} THEN <<>>
        ELSE LET lo == CHOOSE i \in keep : \A j \in keep : i <= j
                 hi == CHOOSE i \in keep : \A j \in keep : j <= i
             IN  SubSeq(s, lo, hi)

\* `sub in s` for Python strings (the empty string is in every string)
Contains(sub, s) ==
    \E i \in 1..(Len(s) - Len(sub) + 1) : SubSeq(s, i, i + Len(sub) - 1) = sub

\* ------------------------------------------------------------------------
\* utils/location_proximity.py
\* ------------------------------------------------------------------------
CAFETERIA == <<"c", "a", "f", "e", "t", "e", "r", "i", "a">>
LIBRARY == <<"l", "i", "b", "r", "a", "r", "y">>
HOSTEL_A == <<"h", "o", "s", "t", "e", "l", " ", "a">>
HOSTEL_B == <<"h", "o", "s", "t", "e", "l", " ", "b">>
HOSTEL_C == <<"h", "o", "s", "t", "e", "l", " ", "c">>
TAN_BLOCK == <<"t", "a", "n", " ", "b", "l", "o", "c", "k">>
COS_BLOCK == <<"c", "o", "s", " ", "b", "l", "o", "c", "k">>
G_BLOCK == <<"g", " ", "b", "l", "o", "c", "k">>
B_BLOCK == <<"b", " ", "b", "l", "o", "c", "k">>

STANDARD_LOCATIONS ==
    {CAFETERIA, LIBRARY, HOSTEL_A, HOSTEL_B, HOSTEL_C, TAN_BLOCK, COS_BLOCK,
     G_BLOCK, B_BLOCK}

\* The rows and columns of LOCATION_PROXIMITY_MATRIX, in source order
MatrixNames ==
    <<CAFETERIA, LIBRARY, HOSTEL_A, HOSTEL_B, HOSTEL_C, TAN_BLOCK, COS_BLOCK,
      G_BLOCK, B_BLOCK>>

\* LOCATION_PROXIMITY_MATRIX, in tenths (10 is 1.0)
LOCATION_PROXIMITY_MATRIX ==
    <<<<10,  3,  5,  6,  4,  7,  6,  8,  7>>,
      << 3, 10,  2,  3,  2,  4,  5,  3,  4>>,
      << 5,  2, 10,  9,  8,  3,  4,  2,  3>>,
      << 6,  3,  9, 10,  9,  4,  5,  3,  4>>,
      << 4,  2,  8,  9, 10,  2,  3,  2,  3>>,
      << 7,  4,  3,  4,  2, 10,  8,  5,  6>>,
      << 6,  5,  4,  5,  3,  8, 10,  6,  7>>,
      << 8,  3,  2,  3,  2,  5,  6, 10,  9>>,
      << 7,  4,  3,  4,  3,  6,  7,  9, 10>>>>

\* location_mappings: the dict's items in insertion order (a repeated key keeps
\* its first position)
location_mappings ==
    <<<<<<"c", "a", "f", "e">>, CAFETERIA>>,
      <<<<"m", "e", "s", "s">>, CAFETERIA>>,
      <<<<"l", "i", "b">>, LIBRARY>>,
      <<<<"h", "o", "s", "t", "e", "l", "-", "a">>, HOSTEL_A>>,
      <<<<"h", "o", "s", "t", "e", "l", " ", "a">>, HOSTEL_A>>,
      <<<<"h", "o", "s", "t", "e", "l", "-", "b">>, HOSTEL_B>>,
      <<<<"h", "o", "s", "t", "e", "l", " ", "b">>, HOSTEL_B>>,
      <<<<"h", "o", "s", "t", "e", "l", "-", "c">>, HOSTEL_C>>,
      <<<<"h", "o", "s", "t", "e", "l", " ", "c">>, HOSTEL_C>>,
      <<<<"t", "a", "n">>, TAN_BLOCK>>,
      <<<<"c", "o", "s">>, COS_BLOCK>>,
      <<<<"g">>, G_BLOCK>>,
      <<<<"b">>, B_BLOCK>>>>

\* None, as returned by normalize_location_name.  No location name is empty and
\* get_location_proximity tests `not norm_a`, which None and "" both satisfy.
NoLocation == <<>>

\* Iteration orders of the set STANDARD_LOCATIONS.  Python fixes the order of
\* a set of strings per process (string hashing is seeded), so the order is
\* an unknown of the run; two opposite orders are explored.
StdOrders ==
    {MatrixNames,
     <<B_BLOCK, G_BLOCK, COS_BLOCK, TAN_BLOCK, HOSTEL_C, HOSTEL_B, HOSTEL_A,
       LIBRARY, CAFETERIA>>}

MappingHits(normalized) ==
    {k \in 1..Len(location_mappings) : Contains(location_mappings[k][1], normalized)}

StdHits(normalized, order) ==
    {k \in 1..Len(order) :
        Contains(order[k], normalized) \/ Contains(normalized, order[k])}

Least(S) == CHOOSE k \in S : \A j \in S : k <= j

normalize_location_name(location, order) ==
    IF location = <<>> THEN NoLocation
    ELSE LET normalized == Lower(Strip(location))
         IN  IF normalized \in STANDARD_LOCATIONS THEN normalized
             ELSE IF MappingHits(normalized) # {}
                  THEN location_mappings[Least(MappingHits(normalized))][2]
             ELSE IF StdHits(normalized, order) # {}
                  THEN order[Least(StdHits(normalized, order))]
             ELSE NoLocation

MatrixIndex(name) == CHOOSE k \in 1..Len(MatrixNames) : MatrixNames[k] = name

\* Locations that reports carry: a standard name in another case, a name with
\* surrounding blanks and a hyphen, a standard name, a name only the mappings
\* resolve, a name that is a part of three standard names, an unknown name,
\* and no location
LocLibrary == <<"L", "i", "b", "r", "a", "r", "y">>
LocHostelB == <<" ", "H", "o", "s", "t", "e", "l", "-", "B">>
LocMess == <<"m", "e", "s", "s">>
LocHostel == <<"h", "o", "s", "t", "e", "l">>
LocUnknown == <<"x", "y", "z">>

Locations ==
    {LocLibrary, LocHostelB, HOSTEL_A, LocMess, LocHostel, LocUnknown, NoLocation}

\* normalize_location_name over Locations, computed once per iteration order
\* (get_location_proximity is wrapped in lru_cache)
NormalizedLocations ==
    [order \in StdOrders |->
        [location \in Locations |-> normalize_location_name(location, order)]]

Normalized(location, order) ==
    IF location \in Locations THEN NormalizedLocations[order][location]
    ELSE normalize_location_name(location, order)

\* The proximity of two locations, in [0,1]
get_location_proximity(location_a, location_b, order) ==
    LET norm_a == Normalized(location_a, order)
        norm_b == Normalized(location_b, order)
    IN  IF norm_a = NoLocation \/ norm_b = NoLocation THEN RZero
        ELSE Rat(LOCATION_PROXIMITY_MATRIX[MatrixIndex(norm_a)][MatrixIndex(norm_b)], 10)

apply_location_boost(base_score, location_a, location_b, boost_factor, order) ==
    LET proximity == get_location_proximity(location_a, location_b, order)
    IN  IF RGt(proximity, Rat(1, 2)) /\ RGe(base_score, Rat(1, 2))
        THEN RMin(ROne, RAdd(base_score, RMul(proximity, boost_factor)))
        ELSE base_score

\* ------------------------------------------------------------------------
\* config/settings.py
\* ------------------------------------------------------------------------

match_confidence_threshold == Rat(70, 100)

max_matches_returned == 20

\* ------------------------------------------------------------------------
\* services/matching.py: similarity and scoring
\* ------------------------------------------------------------------------

\* A vector column holding None (image_vector of an item stored without image
\* embedding).  Stored vectors have the column's dimension, so None is the only
\* value the guard `v is not None and len(v) > 0` rejects.
NoVector == <<>>

\* A sub-score that is None
NoScore == <<>>

Dot(a, b) == a[1] * b[1] + a[2] * b[2]

\* np.linalg.norm, for vectors whose norm is an integer
Norm(v) == CHOOSE n \in 0..(Abs(v[1]) + Abs(v[2])) : n * n = Dot(v, v)

_cosine_similarity_fast(vector_a, vector_b) ==
    LET norm_a == Norm(vector_a)
        norm_b == Norm(vector_b)
    IN  IF norm_a = 0 \/ norm_b = 0 THEN Rat(-1, 1)
        ELSE Rat(Dot(vector_a, vector_b), norm_a * norm_b)

WEIGHT_IMAGE_IMAGE == Rat(100, 100)
WEIGHT_TEXT_IMAGE == Rat(85, 100)
WEIGHT_IMAGE_TEXT == Rat(75, 100)
WEIGHT_TEXT_TEXT == Rat(65, 100)

\* One of the four sub-scores of lines 107-134: None unless both vectors are
\* present, and None when the cosine is negative
SubScore(vector_a, vector_b) ==
    IF Len(vector_a) > 0 /\ Len(vector_b) > 0
    THEN LET score == _cosine_similarity_fast(vector_a, vector_b)
         IN  IF RLt(score, RZero) THEN NoScore ELSE score
    ELSE NoScore

score_tt(new_item, candidate) ==
    SubScore(new_item.description_vector, candidate.description_vector)

score_ti(new_item, candidate) ==
    SubScore(new_item.description_clip_vector, candidate.image_vector)

score_it(new_item, candidate) ==
    SubScore(new_item.image_vector, candidate.description_clip_vector)

score_ii(new_item, candidate) ==
    SubScore(new_item.image_vector, candidate.image_vector)

\* weighted_scores: the (score, weight) pairs of the sub-scores that are not None
weighted_scores(new_item, candidate) ==
    (IF score_ii(new_item, candidate) # NoScore
     THEN <<<<score_ii(new_item, candidate), WEIGHT_IMAGE_IMAGE>>>> ELSE <<>>)
    \o (IF score_ti(new_item, candidate) # NoScore
        THEN <<<<score_ti(new_item, candidate), WEIGHT_TEXT_IMAGE>>>> ELSE <<>>)
    \o (IF score_it(new_item, candidate) # NoScore
        THEN <<<<score_it(new_item, candidate), WEIGHT_IMAGE_TEXT>>>> ELSE <<>>)
    \o (IF score_tt(new_item, candidate) # NoScore
        THEN <<<<score_tt(new_item, candidate), WEIGHT_TEXT_TEXT>>>> ELSE <<>>)

WeightedAverage(ws) ==
    LET total_weight == RSum([i \in 1..Len(ws) |-> ws[i][2]])
        weighted_sum == RSum([i \in 1..Len(ws) |-> RMul(ws[i][1], ws[i][2])])
    IN  RDiv(weighted_sum, total_weight)

ImageBoostFactor == Rat(105, 100)

\* base_score of lines 154-165, for a candidate with at least one sub-score
base_score(new_item, candidate) ==
    LET ws == weighted_scores(new_item, candidate)
        ii == score_ii(new_item, candidate)
    IN  IF Len(ws) = 1 THEN ws[1][1]
        ELSE IF ii # NoScore
             THEN RMax(WeightedAverage(ws), RMul(ii, ImageBoostFactor))
             ELSE WeightedAverage(ws)

LocationGate(threshold) == RMul(threshold, Rat(9, 10))

\* A final score that boosts every candidate, close to the threshold or not
FinalScoreUngated(new_item, candidate, threshold, order) ==
    apply_location_boost(base_score(new_item, candidate), new_item.location,
                         candidate.location, Rat(5, 100), order)

\* final_score of lines 178-189
final_score(new_item, candidate, threshold, order) ==
    LET base == base_score(new_item, candidate)
    IN  IF RGe(base, LocationGate(threshold))
        THEN apply_location_boost(base, new_item.location, candidate.location,
                                  Rat(5, 100), order)
        ELSE base

\* math.isclose(a, b, abs_tol=abs_tol): abs(a - b) <= max(rel_tol * max(|a|, |b|),
\* abs_tol) with the default rel_tol = 1e-09.  Scores are below 2 and abs_tol is
\* 0.01, so the relative term is never the larger one and is left out.
isclose(a, b, abs_tol) ==
    \/ a = b
    \/ RLe(RAbs(RSub(a, b)), abs_tol)

\* A threshold filter without the tolerance
PassesThresholdExactly(score, threshold) ==
    RGe(score, threshold)

\* The threshold filter of line 192
PassesThreshold(score, threshold) ==
    RGe(score, threshold) \/ isclose(score, threshold, Rat(1, 100))

\* ------------------------------------------------------------------------
\* State
\* ------------------------------------------------------------------------

\* Bounds of the model
MaxItems == 3
MaxRequests == 2

Users == {"u1", "u2"}

VARIABLES
    items,          \* the items table: a sequence, an item's id is its index
    matches,        \* the committed rows of the matches table
    task,           \* per item id, the background matching run scheduled for it
    notified,       \* ids of the matches notify_match_created was called for
    reqs,           \* approve / reject requests that passed their checks
    std_order,      \* iteration order of the set STANDARD_LOCATIONS
    probe           \* a scoring of one pair of items (ScoreSpec only)

vars == <<items, matches, task, notified, reqs, std_order, probe>>

ItemIds == 1..MaxItems

\* Vectors the embedding provider returns (directions of norm 5)
VecA == <<5, 0>>
VecB == <<4, 3>>
VecC == <<3, 4>>
VecD == <<0, 5>>
VecN == <<-3, 4>>
\* The zero vector, which no embedding is
VecZ == <<0, 0>>

\* An upload: no file, a file of zero bytes, or a file whose image embeds to
\* the vector `vector`
NoFile == [file |-> "none", vector |-> NoVector]
EmptyFile == [file |-> "empty", vector |-> NoVector]
ImageFile(v) == [file |-> "data", vector |-> v]

ReportPayload(status, dv, clip, image, location) ==
    [status |-> status, description_vector |-> dv,
     description_clip_vector |-> clip, image_file |-> image,
     location |-> location]

PayloadLostPhoto == ReportPayload("LOST", VecA, VecA, ImageFile(VecB), LocHostelB)
PayloadFoundAlike == ReportPayload("FOUND", VecA, VecA, ImageFile(VecB), LocLibrary)
PayloadFoundOther == ReportPayload("FOUND", VecD, VecD, ImageFile(VecN), HOSTEL_A)
PayloadFoundNoFile == ReportPayload("FOUND", VecA, VecA, NoFile, LocLibrary)

\* The reports explored, as <<reporter, payload>>: a lost item with a photo,
\* a found item that resembles it (reported by another user and by the same
\* one), a found item that does not, and a found item reported without a file.
Reports ==
    {<<"u1", PayloadLostPhoto>>,
     <<"u2", PayloadFoundAlike>>,
     <<"u1", PayloadFoundAlike>>,
     <<"u2", PayloadFoundOther>>,
     <<"u2", PayloadFoundNoFile>>}

\* A lost item reported without a photo, with description vector dv
PayloadLostNoPhoto(dv) == ReportPayload("LOST", dv, VecA, NoFile, LocLibrary)

\* A found item whose photo is at cosine 0.8 from the CLIP text vector of the
\* lost items above, reported far from them
PayloadFoundPhoto == ReportPayload("FOUND", VecA, VecA, ImageFile(VecB), HOSTEL_A)

\* A found item reported with a file of zero bytes
PayloadFoundEmptyFile == ReportPayload("FOUND", VecA, VecA, EmptyFile, HOSTEL_A)

\* The reports of the end-to-end runs: a lost item without photo whose
\* description is the same as, unrelated to and opposed to the found item's,
\* the found item, a found item with an empty file, and one with no file
EndToEndReports ==
    {<<"u1", PayloadLostNoPhoto(VecA)>>,
     <<"u1", PayloadLostNoPhoto(VecD)>>,
     <<"u1", PayloadLostNoPhoto(VecN)>>,
     <<"u2", PayloadFoundPhoto>>,
     <<"u2", PayloadFoundEmptyFile>>,
     <<"u2", PayloadFoundNoFile>>}

\* A matching run that is not scheduled
NoTask ==
    [pc |-> "none", candidate_scores |-> <<>>, k |-> 0,
     matches_to_create |-> <<>>, flushed |-> 0, notify_failed |-> FALSE]

NoProbe == [pc |-> "none"]

\* An empty database.  The reports of the explored runs resolve their location
\* before STANDARD_LOCATIONS is iterated, so one iteration order is kept here.
Init ==
    /\ items = <<>>
    /\ matches = {}
    /\ task = [i \in ItemIds |-> NoTask]
    /\ notified = {}
    /\ reqs = {}
    /\ std_order = MatrixNames
    /\ probe = NoProbe

\* ------------------------------------------------------------------------
\* services/items.py: report_item
\* ------------------------------------------------------------------------

\* EmbeddingService.encode_image: None when image_bytes is None or empty
encode_image(image) ==
    IF image.file = "data" THEN image.vector ELSE NoVector

\* The Item row _persist_item builds (column defaults: active, no match found)
NewItem(reporter, payload) ==
    [reported_by_user_id |-> reporter,
     status |-> payload.status,
     location |-> payload.location,
     description_vector |-> payload.description_vector,
     description_clip_vector |-> payload.description_clip_vector,
     image_vector |-> encode_image(payload.image_file),
     image_url |-> payload.image_file.file # "none",
     is_active |-> TRUE,
     has_match_found |-> FALSE]

\* A report that schedules the matching of an item it has not committed
ReportItemBeforeCommit(reporter, payload) ==
    /\ Len(items) < MaxItems
    /\ task' = [task EXCEPT ![Len(items) + 1].pc = "scheduled"]
    /\ UNCHANGED <<items, matches, notified, reqs, std_order, probe>>

\* report_item: _persist_item, commit, and the background task scheduled for
\* the new item; a found item reported without a file is refused
ReportItem(reporter, payload) ==
    /\ Len(items) < MaxItems
    /\ IF payload.status = "FOUND" /\ payload.image_file.file = "none"
       THEN UNCHANGED <<items, task>>
       ELSE /\ items' = Append(items, NewItem(reporter, payload))
            /\ task' = [task EXCEPT ![Len(items) + 1].pc = "scheduled"]
    /\ UNCHANGED <<matches, notified, reqs, std_order, probe>>

\* ------------------------------------------------------------------------
\* services/matching.py: run_matching_algorithm
\* ------------------------------------------------------------------------

target_status(new_item) == IF new_item.status = "LOST" THEN "FOUND" ELSE "LOST"

RECURSIVE Descending(_)
\* The members of a set of numbers, largest first
Descending(S) ==
    IF S = {} THEN <<>>
    ELSE LET m == CHOOSE x \in S : \A y \in S : y <= x
         IN  <<m>> \o Descending(S \ {m})

Truncate(seq, n) == IF Len(seq) > n THEN SubSeq(seq, 1, n) ELSE seq

\* The candidate query of lines 63-79: active items of the opposite status,
\* newest first (ids grow with reported_at), at most 2 * max_matches_returned
target_items(new_id) ==
    Truncate(
        Descending({c \in 1..Len(items) :
            /\ items[c].status = target_status(items[new_id])
            /\ items[c].is_active
            /\ c # new_id}),
        max_matches_returned * 2)

\* A list left in query order
Unsorted(seq) == seq

RECURSIVE SortedDescending(_)
\* list.sort(key=score, reverse=True): stable, equal scores keep their order
SortedDescending(seq) ==
    IF seq = <<>> THEN <<>>
    ELSE LET rest == SortedDescending(Tail(seq))
             x == Head(seq)
             ahead == {j \in 1..Len(rest) : RGt(rest[j][2], x[2])}
             p == Cardinality(ahead)
         IN  SubSeq(rest, 1, p) \o <<x>> \o SubSeq(rest, p + 1, Len(rest))

RECURSIVE ScoredCandidates(_, _)
\* The loop of lines 99-196 over target_items: the (candidate, final_score)
\* pairs that have a sub-score and pass the threshold, in query order
ScoredCandidates(new_id, cands) ==
    IF cands = <<>> THEN <<>>
    ELSE LET c == Head(cands)
             rest == ScoredCandidates(new_id, Tail(cands))
         IN  IF weighted_scores(items[new_id], items[c]) = <<>> THEN rest
             ELSE LET final == final_score(items[new_id], items[c],
                                           match_confidence_threshold, std_order)
                  IN  IF PassesThreshold(final, match_confidence_threshold)
                      THEN <<<<c, final>>>> \o rest
                      ELSE rest

\* candidate_scores after lines 198-200
candidate_scores(new_id) ==
    Truncate(SortedDescending(ScoredCandidates(new_id, target_items(new_id))),
             max_matches_returned)

\* ------------------------------------------------------------------------
\* models/match.py and the database session
\* ------------------------------------------------------------------------

\* A matches table without the unique constraint
NoUniqueConstraint(row_a, row_b) == FALSE

\* A constraint that lets every run have its own row for a pair
UniquePerRun(row_a, row_b) ==
    /\ row_a.lost_item_id = row_b.lost_item_id
    /\ row_a.found_item_id = row_b.found_item_id
    /\ row_a.id = row_b.id

\* uq_match_lost_found: two rows the unique constraint does not let coexist
uq_match_lost_found(row_a, row_b) ==
    /\ row_a.lost_item_id = row_b.lost_item_id
    /\ row_a.found_item_id = row_b.found_item_id

\* The rows a run has INSERTed in its open transaction
Uncommitted(i) ==
    IF task[i].pc \in {"checking", "flush", "notify", "commit"}
    THEN {task[i].matches_to_create[j] : j \in 1..task[i].flushed}
    ELSE {}

\* Match(...) of lines 233-239.  The primary key (uuid4 in the source) is the
\* pair and the run that builds the row: a run builds one row per pair at most.
Match(run, lost_item_id, found_item_id, loser_id, finder_id, confidence_score) ==
    [id |-> <<lost_item_id, found_item_id, run>>,
     lost_item_id |-> lost_item_id,
     found_item_id |-> found_item_id,
     loser_id |-> loser_id,
     finder_id |-> finder_id,
     confidence_score |-> confidence_score,
     match_status |-> "PENDING"]

\* A row whose roles follow the run and not the statuses: the new item is
\* always the lost one
NewMatchRolesSwapped(new_id, candidate_id, score) ==
    Match(new_id, new_id, candidate_id, items[new_id].reported_by_user_id,
          items[candidate_id].reported_by_user_id, score)

\* A row whose items follow the statuses but whose people follow the run: the
\* reporter of the new item is always the loser
NewMatchPartiesOfRun(new_id, candidate_id, score) ==
    IF items[new_id].status = "LOST"
    THEN Match(new_id, new_id, candidate_id, items[new_id].reported_by_user_id,
               items[candidate_id].reported_by_user_id, score)
    ELSE Match(new_id, candidate_id, new_id, items[new_id].reported_by_user_id,
               items[candidate_id].reported_by_user_id, score)

\* Lines 209-223 and 233-239: the roles of the two items, and the row
NewMatch(new_id, candidate_id, score) ==
    IF items[new_id].status = "LOST"
    THEN Match(new_id, new_id, candidate_id, items[new_id].reported_by_user_id,
               items[candidate_id].reported_by_user_id, score)
    ELSE Match(new_id, candidate_id, new_id, items[candidate_id].reported_by_user_id,
               items[new_id].reported_by_user_id, score)

\* The rows a session still has to INSERT (added, not flushed)
Pending(i) ==
    {task[i].matches_to_create[j] :
        j \in (task[i].flushed + 1)..Len(task[i].matches_to_create)}

\* An INSERT waits while another open transaction holds a row with the same key
InsertWaits(i) ==
    \E row \in Pending(i) : \E j \in ItemIds \ {i} :
        \E other \in Uncommitted(j) : uq_match_lost_found(row, other)

\* An INSERT raises IntegrityError when a committed row has the same key
IntegrityError(i) ==
    \E row \in Pending(i) : \E other \in matches : uq_match_lost_found(row, other)

\* The existence query of lines 226-230, in a READ COMMITTED transaction
ExistingMatch(i, lost_item_id, found_item_id) ==
    {m \in matches \cup Uncommitted(i) :
        m.lost_item_id = lost_item_id /\ m.found_item_id = found_item_id}

\* ------------------------------------------------------------------------
\* tasks/matching.py: _process_item_matches, step by step
\* ------------------------------------------------------------------------

\* The exception run_async logs (lines 61-63 of the task): the session is
\* rolled back and closed, and nothing of the run remains
Failed == [NoTask EXCEPT !.pc = "failed"]

\* Lines 16-27 of the task and run_matching_algorithm up to line 201: the item
\* is loaded (an inactive item is not matched), then the candidate query and
\* the scores
ScoreCandidates(i) ==
    /\ task[i].pc = "scheduled"
    /\ LET scores == IF items[i].is_active THEN candidate_scores(i) ELSE <<>>
       IN  task' = [task EXCEPT ![i].candidate_scores = scores,
                                ![i].k = 1,
                                ![i].pc = IF scores = <<>> THEN "done" ELSE "checking"]
    /\ UNCHANGED <<items, matches, notified, reqs, std_order, probe>>

\* One iteration of the loop of lines 204-242.  The session autoflushes before
\* the existence query, which INSERTs the row added by the iteration before.
CheckCandidate(i) ==
    /\ task[i].pc = "checking"
    /\ ~InsertWaits(i)
    /\ IF IntegrityError(i)
       THEN task' = [task EXCEPT ![i] = Failed]
       ELSE LET t == task[i]
                c == t.candidate_scores[t.k][1]
                score == t.candidate_scores[t.k][2]
                row == NewMatch(i, c, score)
                skip == \/ items[c].status = items[i].status
                        \/ ExistingMatch(i, row.lost_item_id, row.found_item_id) # {}
                created == IF skip THEN t.matches_to_create
                           ELSE Append(t.matches_to_create, row)
                last == t.k = Len(t.candidate_scores)
            IN  task' = [task EXCEPT
                    ![i].flushed = Len(t.matches_to_create),
                    ![i].matches_to_create = created,
                    ![i].k = t.k + 1,
                    ![i].candidate_scores = IF last THEN <<>> ELSE @,
                    ![i].pc = IF ~last THEN "checking"
                              ELSE IF created = <<>> THEN "done" ELSE "flush"]
    /\ UNCHANGED <<items, matches, notified, reqs, std_order, probe>>

\* Line 245: session.flush()
Flush(i) ==
    /\ task[i].pc = "flush"
    /\ ~InsertWaits(i)
    /\ IF IntegrityError(i)
       THEN task' = [task EXCEPT ![i] = Failed]
       ELSE task' = [task EXCEPT ![i].flushed = Len(task[i].matches_to_create),
                                 ![i].pc = "notify"]
    /\ UNCHANGED <<items, matches, notified, reqs, std_order, probe>>

\* Lines 29-38 of the task: the matches notify_match_created is called for,
\* given the set of calls that raise.  The exception is logged inside the loop,
\* which goes on with the next match.
NotifyCalls(n, raising) == 1..n

\* A loop without the try / except: a notification that raises ends the run
NotifyErrorPropagates(raising) == IF raising = {} THEN "commit" ELSE "failed"

\* Lines 34-38 of the task: where the run goes after the loop
AfterNotify(raising) == "commit"

\* The notification loop of lines 29-38; `raising` are the positions of the
\* matches whose notification raises
Notify(i, raising) ==
    /\ task[i].pc = "notify"
    /\ LET t == task[i]
           n == Len(t.matches_to_create)
       IN  /\ raising \subseteq 1..n
           /\ notified' = notified \cup
                  {t.matches_to_create[j].id : j \in NotifyCalls(n, raising)}
           /\ task' = [task EXCEPT
                  ![i] = IF AfterNotify(raising) = "commit"
                         THEN [t EXCEPT !.notify_failed = raising # {},
                                        !.pc = "commit"]
                         ELSE Failed]
    /\ UNCHANGED <<items, matches, reqs, std_order, probe>>

\* A commit that also flags the item of the run as matched
CommitAndFlag(i) ==
    /\ task[i].pc = "commit"
    /\ matches' = matches \cup Uncommitted(i)
    /\ task' = [task EXCEPT ![i].pc = "done"]
    /\ items' = [items EXCEPT ![i].has_match_found = TRUE]
    /\ UNCHANGED <<notified, reqs, std_order, probe>>

\* A run that ends without committing what it inserted
Rollback(i) ==
    /\ task[i].pc = "commit"
    /\ task' = [task EXCEPT ![i].pc = "done"]
    /\ UNCHANGED <<items, matches, notified, reqs, std_order, probe>>

\* Lines 40-42 of the task: session.commit()
Commit(i) ==
    /\ task[i].pc = "commit"
    /\ matches' = matches \cup Uncommitted(i)
    /\ task' = [task EXCEPT ![i].pc = "done"]
    /\ UNCHANGED <<items, notified, reqs, std_order, probe>>

\* ------------------------------------------------------------------------
\* routers/matches.py and services/matching.py: approve and reject
\* ------------------------------------------------------------------------

\* A match id that is in no table
NoSuchMatch == <<0, 0, 0>>

MatchIds == {m.id : m \in matches} \cup {NoSuchMatch}

\* select(Match).where(Match.id == match_id): the row, as a set of 0 or 1 rows
MatchById(match_id) == {m \in matches : m.id = match_id}

\* A check that only looks the match up
EnsureMatchExists(found) == IF found = {} THEN 404 ELSE 0

\* _ensure_pending_match: the status code it raises, 0 when it returns the match
_ensure_pending_match(found) ==
    IF found = {} THEN 404
    ELSE IF \E m \in found : m.match_status # "PENDING" THEN 400
    ELSE 0

\* No check of the acting user
AnyUserMayDecide(match, acting_user) == FALSE

\* Lines 272 and 313: the acting user must be the loser
PermissionError(match, acting_user) == match.loser_id # acting_user

\* The status code an approve or reject request is refused with by the checks
\* of the endpoint and of approve_match / reject_match, 0 when it passes them
DecisionRefusal(match_id, acting_user) ==
    LET found == MatchById(match_id)
        code == _ensure_pending_match(found)
    IN  IF code # 0 THEN code
        ELSE IF \E m \in found : PermissionError(m, acting_user) THEN 403
        ELSE 0

\* The endpoints up to the end of the checks: a request that passes them holds
\* the match it loaded; a refused request changes nothing
BeginDecision(op, match_id, acting_user) ==
    /\ Cardinality(reqs) < MaxRequests
    /\ IF DecisionRefusal(match_id, acting_user) # 0
       THEN reqs' = reqs
       ELSE reqs' = reqs \cup {[op |-> op, match_id |-> match_id,
                                user |-> acting_user]}
    /\ UNCHANGED <<items, matches, task, notified, std_order, probe>>

\* An UPDATE without its WHERE clause: every row takes the new status
UpdateAllStatuses(match_id, new_status) ==
    {[m EXCEPT !.match_status = new_status] : m \in matches}

\* UPDATE matches SET match_status = ... WHERE id = ...
UpdateStatus(match_id, new_status) ==
    {IF m.id = match_id THEN [m EXCEPT !.match_status = new_status] ELSE m :
        m \in matches}

\* An approval that archives the lost item only
ArchiveLostItemOnly(match) ==
    [id \in 1..Len(items) |->
        IF id = match.lost_item_id
        THEN [items[id] EXCEPT !.is_active = FALSE, !.has_match_found = TRUE]
        ELSE items[id]]

\* Lines 279-283: both items archived and flagged
ArchiveItems(match) ==
    [id \in 1..Len(items) |->
        IF id = match.lost_item_id \/ id = match.found_item_id
        THEN [items[id] EXCEPT !.is_active = FALSE, !.has_match_found = TRUE]
        ELSE items[id]]

\* approve_match, lines 279-307: the session's changes are committed.  When
\* the row of the match is gone (its item was deleted meanwhile) the UPDATE
\* matches no row, the request fails and its transaction is rolled back.
CommitApprove(r) ==
    /\ r \in reqs
    /\ r.op = "approve"
    /\ IF MatchById(r.match_id) = {}
       THEN UNCHANGED <<matches, items>>
       ELSE LET match == CHOOSE m \in matches : m.id = r.match_id
            IN  /\ matches' = UpdateStatus(match.id, "APPROVED")
                /\ items' = ArchiveItems(match)
    /\ reqs' = reqs \ {r}
    /\ UNCHANGED <<task, notified, std_order, probe>>

\* reject_match, lines 316-320
CommitReject(r) ==
    /\ r \in reqs
    /\ r.op = "reject"
    /\ matches' = UpdateStatus(r.match_id, "REJECTED")
    /\ reqs' = reqs \ {r}
    /\ UNCHANGED <<items, task, notified, std_order, probe>>

\* ------------------------------------------------------------------------
\* routers/items.py and services/items.py: resolve
\* ------------------------------------------------------------------------

\* resolve_reported_item, lines 91-100 of the router: the status code it
\* raises, 0 when the item is handed to resolve_item
ResolveRefusal(item_id, current_user) ==
    IF item_id \notin 1..Len(items) THEN 404
    ELSE IF items[item_id].reported_by_user_id # current_user THEN 403
    ELSE IF items[item_id].status # "LOST" THEN 400
    ELSE 0

\* resolve_item: the item is archived, and nothing else of it changes
ResolveItem(item_id, current_user) ==
    /\ IF ResolveRefusal(item_id, current_user) # 0
       THEN items' = items
       ELSE items' = [items EXCEPT ![item_id].is_active = FALSE]
    /\ UNCHANGED <<matches, task, notified, reqs, std_order, probe>>

\* ------------------------------------------------------------------------
\* routers/items.py: delete
\* ------------------------------------------------------------------------

\* A row deleted from the items table.  An item's id is its position in
\* `items`, so the position keeps a marker that no query returns.
DeletedItem(item) == [item EXCEPT !.status = "DELETED", !.is_active = FALSE]

\* The APPROVED matches of an item (the query of lines 144-152)
approved_match(item_id) ==
    {m \in matches :
        /\ m.lost_item_id = item_id \/ m.found_item_id = item_id
        /\ m.match_status = "APPROVED"}

\* delete_item, lines 138-157: the status code it raises, 0 when the checks pass
DeleteRefusal(item_id, current_user) ==
    IF item_id \notin 1..Len(items) THEN 404
    ELSE IF items[item_id].status = "DELETED" THEN 404
    ELSE IF items[item_id].reported_by_user_id # current_user THEN 403
    ELSE IF approved_match(item_id) # {} THEN 400
    ELSE 0

\* delete_item up to the end of its checks: a request that passes them holds
\* the item it loaded; a refused request changes nothing
BeginDelete(item_id, current_user) ==
    /\ Cardinality(reqs) < MaxRequests
    /\ IF DeleteRefusal(item_id, current_user) # 0
       THEN reqs' = reqs
       ELSE reqs' = reqs \cup {[op |-> "delete", item_id |-> item_id,
                                user |-> current_user]}
    /\ UNCHANGED <<items, matches, task, notified, std_order, probe>>

\* Item.matches_as_lost / matches_as_found (cascade "all, delete-orphan") and
\* ON DELETE CASCADE of the foreign keys: the matches that go with an item
CascadeDeleted(item_id) ==
    {m \in matches : m.lost_item_id = item_id \/ m.found_item_id = item_id}

\* delete_item, lines 164-166: session.delete(item) and commit.  A second
\* delete of an item finds no row, and fails.
CommitDelete(r) ==
    /\ r \in reqs
    /\ r.op = "delete"
    /\ IF items[r.item_id].status = "DELETED"
       THEN UNCHANGED <<items, matches>>
       ELSE /\ items' = [items EXCEPT ![r.item_id] = DeletedItem(@)]
            /\ matches' = matches \ CascadeDeleted(r.item_id)
    /\ reqs' = reqs \ {r}
    /\ UNCHANGED <<task, notified, std_order, probe>>

\* ------------------------------------------------------------------------
\* services/search.py
\* ------------------------------------------------------------------------

\* An item of the search specification carries, beside its columns, what
\* _fuzzy_score (rapidfuzz WRatio / 100, not part of the repository) returns
\* for the query of the request against its description (desc_score) and its
\* location (loc_score), and whether the lowered query is a substring of one
\* of them (contains).

\* Lines 135-142 of search_items_fuzzy: the fuzzy score of an item
fuzzy_score(item) ==
    LET best == RMax(item.desc_score, item.loc_score)
    IN  IF item.contains THEN RMax(best, Rat(90, 100)) ELSE best

\* _build_item_filters: the items the candidate query returns, newest first
SearchCandidates(status_filter, include_archived) ==
    Descending({id \in 1..Len(items) :
        /\ include_archived \/ items[id].is_active
        /\ status_filter = "none" \/ items[id].status = status_filter})

\* The (item, score) pairs of the items of a list, in its order
Scored(ids, score) == [j \in 1..Len(ids) |-> <<ids[j], score[ids[j]]>>]

\* search_items_fuzzy; `blank` says that the stripped query has less than
\* two characters
search_items_fuzzy(blank, status_filter, include_archived, limit, min_score) ==
    IF blank THEN <<>>
    ELSE LET score == [id \in 1..Len(items) |-> fuzzy_score(items[id])]
             kept == SelectSeq(SearchCandidates(status_filter, include_archived),
                               LAMBDA id : RGe(score[id], min_score))
         IN  Truncate(SortedDescending(Scored(kept, score)), limit)

\* An item search_items_vector can score: its description vector is there
\* and is not the zero vector
HasDescriptionVector(item) ==
    /\ item.description_vector # NoVector
    /\ Norm(item.description_vector) > 0

\* search_items_vector
search_items_vector(query_vector, status_filter, include_archived, limit, min_score) ==
    IF query_vector = NoVector THEN <<>>
    ELSE IF Norm(query_vector) = 0 THEN <<>>
    ELSE LET similarity ==
                 [id \in 1..Len(items) |->
                     IF HasDescriptionVector(items[id])
                     THEN _cosine_similarity_fast(items[id].description_vector,
                                                  query_vector)
                     ELSE Rat(-1, 1)]
             kept == SelectSeq(SearchCandidates(status_filter, include_archived),
                               LAMBDA id : /\ HasDescriptionVector(items[id])
                                           /\ RGe(similarity[id], min_score))
         IN  Truncate(SortedDescending(Scored(kept, similarity)), limit)

\* The score of an item in a list of (item, score) pairs, 0.0 when absent
ScoreIn(results, id) ==
    IF \E j \in 1..Len(results) : results[j][1] = id
    THEN results[CHOOSE j \in 1..Len(results) : results[j][1] = id][2]
    ELSE RZero

Ids(results) == [j \in 1..Len(results) |-> results[j][1]]

\* A combined score that leaves the vector similarity out
fuzzy_only_score(fuzzy, vector, fuzzy_weight, vector_weight) ==
    RMul(fuzzy, fuzzy_weight)

\* Line 284: the combined score
combined_score(fuzzy, vector, fuzzy_weight, vector_weight) ==
    RAdd(RMul(fuzzy, fuzzy_weight), RMul(vector, vector_weight))

\* search_items_hybrid
search_items_hybrid(blank, query_vector, status_filter, include_archived, limit, fuzzy_weight, vector_weight, min_score) ==
    IF blank THEN <<>>
    ELSE LET fuzzy_results ==
                 search_items_fuzzy(blank, status_filter, include_archived,
                                    limit * 3, Rat(15, 100))
             vector_results ==
                 search_items_vector(query_vector, status_filter, include_archived,
                                     limit * 3, Rat(15, 100))
             \* the keys of item_scores, in insertion order
             item_scores ==
                 Ids(fuzzy_results) \o
                 SelectSeq(Ids(vector_results),
                           LAMBDA id : \A j \in 1..Len(fuzzy_results) :
                                          fuzzy_results[j][1] # id)
             combined ==
                 [id \in 1..Len(items) |->
                     combined_score(ScoreIn(fuzzy_results, id),
                                    ScoreIn(vector_results, id),
                                    fuzzy_weight, vector_weight)]
             kept == SelectSeq(item_scores,
                               LAMBDA id : RGe(combined[id], min_score))
         IN  IF query_vector = NoVector THEN Truncate(fuzzy_results, limit)
             ELSE Truncate(SortedDescending(Scored(kept, combined)), limit)

\* statistics.mean of the scores of a list of (item, score) pairs
mean(results) ==
    RDiv(RSum([j \in 1..Len(results) |-> results[j][2]]), Rat(Len(results), 1))

\* A query that returns the matches of the items whatever their status
MatchesOfResults(results) ==
    {m \in matches :
        \E j \in 1..Len(results) :
            results[j][1] = m.lost_item_id \/ results[j][1] = m.found_item_id}

\* The query of lines 328-332: the APPROVED matches of the items of a list
ApprovedMatchesOfResults(results) ==
    {m \in matches :
        /\ m.match_status = "APPROVED"
        /\ \E j \in 1..Len(results) :
                results[j][1] = m.lost_item_id \/ results[j][1] = m.found_item_id}

\* The orders in which a query without ORDER BY can return a set of rows
Orderings(rows) ==
    {s \in [1..Cardinality(rows) -> rows] :
        \A a, b \in 1..Cardinality(rows) : a # b => s[a] # s[b]}

RECURSIVE AddRelated(_, _, _)
\* Lines 344-352: the lost and the found item of every match are added with
\* the paired score unless they are in `combined` already
AddRelated(combined, found_matches, paired_score) ==
    IF found_matches = <<>> THEN combined
    ELSE LET match == Head(found_matches)
             with_lost ==
                 IF \E j \in 1..Len(combined) : combined[j][1] = match.lost_item_id
                 THEN combined
                 ELSE Append(combined, <<match.lost_item_id, paired_score>>)
             with_found ==
                 IF \E j \in 1..Len(with_lost) : with_lost[j][1] = match.found_item_id
                 THEN with_lost
                 ELSE Append(with_lost, <<match.found_item_id, paired_score>>)
         IN  AddRelated(with_found, Tail(found_matches), paired_score)

\* Line 338: the score of an item added for its match
paired_score(base_results, min_score) ==
    RMax(min_score, RMul(mean(base_results), Rat(85, 100)))

\* search_items_admin, after the hybrid search; `found_matches` is the result
\* of the query of the APPROVED matches
search_items_admin(base_results, found_matches, include_matches, limit, min_score) ==
    IF ~include_matches \/ base_results = <<>> THEN Truncate(base_results, limit)
    ELSE IF found_matches = <<>> THEN Truncate(base_results, limit)
    ELSE Truncate(
             SortedDescending(
                 AddRelated(base_results, found_matches,
                            paired_score(base_results, min_score))),
             limit)

\* ------------------------------------------------------------------------
\* Specifications
\* ------------------------------------------------------------------------

TaskStep(i) ==
    \/ ScoreCandidates(i)
    \/ CheckCandidate(i)
    \/ Flush(i)
    \/ \E raising \in SUBSET (1..Len(task[i].matches_to_create)) : Notify(i, raising)
    \/ Commit(i)

Next ==
    \/ \E rp \in Reports : ReportItem(rp[1], rp[2])
    \/ \E i \in ItemIds : TaskStep(i)
    \/ \E op \in {"approve", "reject"}, id \in MatchIds, u \in Users :
            BeginDecision(op, id, u)
    \/ \E r \in reqs : CommitApprove(r)
    \/ \E r \in reqs : CommitReject(r)

\* Requests, reports and matching runs interleave freely
Spec == Init /\ [][Next]_vars

\* The endpoints serve one approve / reject request at a time
BeginDecisionSeq(op, match_id, acting_user) ==
    /\ reqs = {}
    /\ BeginDecision(op, match_id, acting_user)

NextSeq ==
    \/ \E rp \in Reports : ReportItem(rp[1], rp[2])
    \/ \E i \in ItemIds : TaskStep(i)
    \/ \E op \in {"approve", "reject"}, id \in MatchIds, u \in Users :
            BeginDecisionSeq(op, id, u)
    \/ \E r \in reqs : CommitApprove(r)
    \/ \E r \in reqs : CommitReject(r)

\* Reports and matching runs interleave; approve and reject requests are
\* processed one after another
SpecSeq == Init /\ [][NextSeq]_vars

ReportNext ==
    \/ \E rp \in EndToEndReports : ReportItem(rp[1], rp[2])
    \/ \E i \in ItemIds : TaskStep(i)

\* Reports and their matching runs only, over the end-to-end reports
ReportSpec == Init /\ [][ReportNext]_vars

\* ------------------------------------------------------------------------
\* The scoring of one pair of items (lines 99-196 for one candidate)
\* ------------------------------------------------------------------------

ProbeItem(dv, clip, image, location) ==
    [description_vector |-> dv, description_clip_vector |-> clip,
     image_vector |-> image, location |-> location]

ProbeNewItems ==
    {ProbeItem(dv, clip, image, location) :
        dv \in {VecA, VecB}, clip \in {VecA, VecB, VecN},
        image \in {NoVector, VecA, VecB, VecC}, location \in Locations}

ProbeCandidates ==
    {ProbeItem(dv, clip, image, location) :
        dv \in {VecA, VecC, VecD, VecN}, clip \in {VecA, VecD, VecN},
        image \in {NoVector, VecA, VecB, VecC, VecN},
        location \in {HOSTEL_A, LocLibrary, LocHostel}}

ScoreInit ==
    /\ items = <<>>
    /\ matches = {}
    /\ task = [i \in ItemIds |-> NoTask]
    /\ notified = {}
    /\ reqs = {}
    /\ std_order \in StdOrders
    /\ \E new_item \in ProbeNewItems, candidate \in ProbeCandidates :
            probe = [pc |-> "input", new_item |-> new_item, candidate |-> candidate]

\* One iteration of the loop of lines 99-196: the weighted sub-scores, the base
\* score, the final score and whether the candidate is kept
Evaluate ==
    /\ probe.pc = "input"
    /\ LET ws == weighted_scores(probe.new_item, probe.candidate)
           base == IF ws = <<>> THEN NoScore
                   ELSE base_score(probe.new_item, probe.candidate)
           final == IF ws = <<>> THEN NoScore
                    ELSE final_score(probe.new_item, probe.candidate,
                                     match_confidence_threshold, std_order)
       IN  probe' = [pc |-> "scored",
                     new_item |-> probe.new_item,
                     candidate |-> probe.candidate,
                     weighted_scores |-> ws,
                     base_score |-> base,
                     final_score |-> final,
                     kept |-> /\ ws # <<>>
                              /\ PassesThreshold(final, match_confidence_threshold)]
    /\ UNCHANGED <<items, matches, task, notified, reqs, std_order>>

ScoreNext == Evaluate

ScoreSpec == ScoreInit /\ [][ScoreNext]_vars

\* The reports of the life of a lost item and of found items alike
LifecycleReports == {<<"u1", PayloadLostPhoto>>, <<"u2", PayloadFoundAlike>>}

LifecycleNext ==
    \/ \E rp \in LifecycleReports : ReportItem(rp[1], rp[2])
    \/ \E i \in ItemIds : TaskStep(i)
    \/ \E op \in {"approve", "reject"}, id \in MatchIds, u \in Users :
            BeginDecision(op, id, u)
    \/ \E r \in reqs : CommitApprove(r)
    \/ \E r \in reqs : CommitReject(r)
    \/ \E id \in ItemIds, u \in Users : ResolveItem(id, u)

\* Reports, matching runs, approve / reject requests and manual resolves
\* interleave freely
LifecycleSpec == Init /\ [][LifecycleNext]_vars

\* A lost item of u1 and two found items of u2, reported and matched
SettledItems ==
    <<NewItem("u1", PayloadLostPhoto), NewItem("u2", PayloadFoundAlike),
      NewItem("u2", PayloadFoundAlike)>>

\* The rows the run of the lost item built for the two found items
SettledRows ==
    [j \in 1..2 |->
        Match(1, 1, 4 - j, "u1", "u2",
              final_score(SettledItems[1], SettledItems[4 - j],
                          match_confidence_threshold, MatrixNames))]

\* The database after three reports and their runs: the run of the lost item
\* has matched it with both found items, the matches are committed and
\* notified, and no run or request is under way
DeleteInit ==
    /\ items = SettledItems
    /\ matches = {SettledRows[j] : j \in 1..2}
    /\ task = <<[NoTask EXCEPT !.pc = "done", !.k = 3,
                                !.matches_to_create = SettledRows, !.flushed = 2],
                [NoTask EXCEPT !.pc = "done", !.k = 2],
                [NoTask EXCEPT !.pc = "done", !.k = 2]>>
    /\ notified = {SettledRows[j].id : j \in 1..2}
    /\ reqs = {}
    /\ std_order = MatrixNames
    /\ probe = NoProbe

DeleteNext ==
    \/ \E op \in {"approve", "reject"}, id \in MatchIds, u \in Users :
            BeginDecision(op, id, u)
    \/ \E r \in reqs : CommitApprove(r)
    \/ \E r \in reqs : CommitReject(r)
    \/ \E id \in ItemIds, u \in Users : BeginDelete(id, u)
    \/ \E r \in reqs : CommitDelete(r)

\* Approve, reject and delete requests interleave freely on a database with
\* committed matches
DeleteSpec == DeleteInit /\ [][DeleteNext]_vars

\* ------------------------------------------------------------------------
\* The search endpoints on a database of items and matches
\* ------------------------------------------------------------------------

\* Bound of the model: the number of items in the searched database
MaxSearchItems == 3

\* The query vector of the explored requests
QueryVector == VecA

SearchItem(status, desc_score, loc_score, contains, description_vector) ==
    [status |-> status, desc_score |-> desc_score, loc_score |-> loc_score,
     contains |-> contains, description_vector |-> description_vector]

\* Items by what the query finds in them: the query as a substring and an
\* unrelated meaning; a faint resemblance only; the meaning only; both; nothing
SearchItems ==
    {SearchItem("LOST", Rat(60, 100), Rat(20, 100), TRUE, VecD),
     SearchItem("FOUND", Rat(20, 100), Rat(10, 100), FALSE, VecD),
     SearchItem("FOUND", Rat(10, 100), RZero, FALSE, VecB),
     SearchItem("LOST", Rat(70, 100), Rat(30, 100), FALSE, VecA),
     SearchItem("FOUND", Rat(70, 100), Rat(30, 100), FALSE, VecA),
     SearchItem("FOUND", RZero, RZero, FALSE, VecN)}

\* The matches table of the searched database: every lost item is matched
\* with every found item, and the matches of `approved` are APPROVED
SearchMatches(catalog, approved) ==
    {[Match(lost, lost, found, "u1", "u2", ROne) EXCEPT
          !.match_status = IF <<lost, found>> \in approved
                           THEN "APPROVED" ELSE "PENDING"] :
        lost \in {id \in 1..Len(catalog) : catalog[id].status = "LOST"},
        found \in {id \in 1..Len(catalog) : catalog[id].status = "FOUND"}}

\* The items table: the items of an APPROVED match are archived and flagged
SearchCatalog(catalog, approved) ==
    [id \in 1..Len(catalog) |->
        LET matched == \E pair \in approved : pair[1] = id \/ pair[2] = id
        IN  [status |-> catalog[id].status,
             desc_score |-> catalog[id].desc_score,
             loc_score |-> catalog[id].loc_score,
             contains |-> catalog[id].contains,
             description_vector |-> catalog[id].description_vector,
             is_active |-> ~matched,
             has_match_found |-> matched]]

\* The requests: GET /items/search, and GET /admin/dashboard/items with q
SearchRequests ==
    [pc : {"search_items"}, blank : BOOLEAN, query_vector : {NoVector, QueryVector},
     status_filter : {"none", "LOST"}]
    \cup
    [pc : {"admin_items_table"}, blank : BOOLEAN,
     query_vector : {NoVector, QueryVector}, status_filter : {"none", "LOST"},
     include_archived : BOOLEAN, include_matches : BOOLEAN, limit : {1, 50}]

SearchInit ==
    /\ \E n \in 0..MaxSearchItems : \E catalog \in [1..n -> SearchItems] :
        \E approved \in SUBSET {pair \in (1..n) \X (1..n) :
                                    /\ catalog[pair[1]].status = "LOST"
                                    /\ catalog[pair[2]].status = "FOUND"} :
            /\ items = SearchCatalog(catalog, approved)
            /\ matches = SearchMatches(catalog, approved)
    /\ task = [i \in ItemIds |-> NoTask]
    /\ notified = {}
    /\ reqs = {}
    /\ std_order = MatrixNames
    /\ probe \in SearchRequests

\* routers/items.py, search_items: the hybrid search over the active items
search_items ==
    /\ probe.pc = "search_items"
    /\ probe' = [pc |-> "searched",
                 request |-> probe,
                 limit |-> 50,
                 min_score |-> Rat(30, 100),
                 results |->
                     search_items_hybrid(probe.blank, probe.query_vector,
                                         probe.status_filter, FALSE, 50,
                                         Rat(40, 100), Rat(60, 100), Rat(30, 100))]
    /\ UNCHANGED <<items, matches, task, notified, reqs, std_order>>

\* routers/admin.py, admin_items_table with a query: search_items_admin, whose
\* hybrid search is asked for twice the limit
admin_items_table ==
    /\ probe.pc = "admin_items_table"
    /\ LET base_results ==
               search_items_hybrid(probe.blank, probe.query_vector,
                                   probe.status_filter, probe.include_archived,
                                   probe.limit * 2, Rat(40, 100), Rat(60, 100),
                                   Rat(30, 100))
       IN  \E found_matches \in Orderings(ApprovedMatchesOfResults(base_results)) :
               probe' = [pc |-> "admin_searched",
                         request |-> probe,
                         limit |-> probe.limit * 2,
                         min_score |-> Rat(30, 100),
                         results |-> base_results,
                         admin_results |->
                             search_items_admin(base_results, found_matches,
                                                probe.include_matches, probe.limit,
                                                Rat(30, 100))]
    /\ UNCHANGED <<items, matches, task, notified, reqs, std_order>>

SearchNext == search_items \/ admin_items_table

SearchSpec == SearchInit /\ [][SearchNext]_vars

\* ------------------------------------------------------------------------
\* services/matching.py, lines 198-242: sort, truncate and create, on lists
\* longer than max_matches_returned
\* ------------------------------------------------------------------------

\* Bound of the model: the longest list of candidates that passed the threshold
MaxCandidates == 22

\* Final scores that pass the threshold
ScoreValues == <<Rat(7, 10), Rat(8, 10), Rat(9, 10)>>

\* candidate_scores before line 198: n candidates in query order (newest, that
\* is largest id, first), their scores cycling through ScoreValues
ScoredList(n, stride, offset) ==
    [j \in 1..n |-> <<n - j + 1, ScoreValues[((j * stride + offset) % 3) + 1]>>]

SortInit ==
    /\ items = <<>>
    /\ matches = {}
    /\ task = [i \in ItemIds |-> NoTask]
    /\ notified = {}
    /\ reqs = {}
    /\ std_order = MatrixNames
    /\ \E n \in 0..MaxCandidates, stride \in 0..2, offset \in 0..2 :
            probe = [pc |-> "unsorted", scored |-> ScoredList(n, stride, offset)]

\* Lines 198-199: sort by score descending and keep max_matches_returned
SortAndTruncate ==
    /\ probe.pc = "unsorted"
    /\ probe' = [pc |-> "creating",
                 scored |-> probe.scored,
                 candidate_scores |->
                     Truncate(SortedDescending(probe.scored), max_matches_returned),
                 k |-> 1,
                 created |-> 0]
    /\ UNCHANGED <<items, matches, task, notified, reqs, std_order>>

\* One iteration of the loop of lines 203-242: the candidate is skipped when
\* its pair has a Match, and a Match is built otherwise
CreateOrSkip ==
    /\ probe.pc = "creating"
    /\ probe.k <= Len(probe.candidate_scores)
    /\ \E existing \in BOOLEAN :
            probe' = [probe EXCEPT !.k = @ + 1,
                                   !.created = IF existing THEN @ ELSE @ + 1]
    /\ UNCHANGED <<items, matches, task, notified, reqs, std_order>>

SortNext == SortAndTruncate \/ CreateOrSkip

SortSpec == SortInit /\ [][SortNext]_vars

\* ------------------------------------------------------------------------
\* Properties
\* ------------------------------------------------------------------------

PairOf(m) == <<m.lost_item_id, m.found_item_id>>

\* The rows run i has built and holds in its session
RunRows(i) ==
    {task[i].matches_to_create[j] : j \in 1..Len(task[i].matches_to_create)}

\* The pair of the candidate run i is about to check
CandidatePair(i) ==
    LET c == task[i].candidate_scores[task[i].k][1]
    IN  IF items[i].status = "LOST" THEN <<i, c>> ELSE <<c, i>>

\* Run i is about to check a pair that has a committed Match
ChecksMatchedPair(i) ==
    /\ task[i].pc = "checking"
    /\ \E m \in matches : PairOf(m) = CandidatePair(i)

\* A run that finishes the check of a pair that already has a Match builds
\* no row for it
SkipsMatchedPair ==
    \A i \in ItemIds :
        (ChecksMatchedPair(i) /\ task'[i].pc # "failed" /\ task'[i].k = task[i].k + 1)
            => task'[i].matches_to_create = task[i].matches_to_create

\* C1: whatever reports and matching runs took place, the matches table holds
\* at most one row per (lost_item_id, found_item_id) pair, and a run that
\* checks a pair which already has a Match, of any status, skips it.
C1_OneMatchPerPair ==
    /\ [](\A m1, m2 \in matches : PairOf(m1) = PairOf(m2) => m1 = m2)
    /\ [][SkipsMatchedPair]_vars

\* A run is at a pair whose Match was already approved or rejected
C1_Witness ==
    \E i \in ItemIds :
        /\ task[i].pc = "checking"
        /\ \E m \in matches :
              PairOf(m) = CandidatePair(i) /\ m.match_status # "PENDING"

\* C2: a run that loses the race on the unique constraint treats the violation
\* as "match already exists" and does not fail.
C2_RaceIsBenign == \A i \in ItemIds : task[i].pc # "failed"

\* C3: every Match, committed or held by a run, has an item of status LOST as
\* its lost item and an item of status FOUND as its found item.
C3_LostAndFound ==
    \A m \in matches \cup UNION {RunRows(i) : i \in ItemIds} :
        /\ items[m.lost_item_id].status = "LOST"
        /\ items[m.found_item_id].status = "FOUND"

\* Matches built by the run of a found item and by the run of a lost item
C3_Witness ==
    /\ \E m \in matches : m.id[3] = m.found_item_id
    /\ \E m \in matches : m.id[3] = m.lost_item_id

\* A request on a match that is not PENDING is refused with 400
ResolvedIsRefused ==
    \A m \in matches : m.match_status # "PENDING" =>
        \A u \in Users : DecisionRefusal(m.id, u) = 400

\* A row that is APPROVED or REJECTED stays as it is
ResolvedStays == \A m \in matches : m.match_status # "PENDING" => m \in matches'

\* The rows of the items table change only in a step that takes a PENDING
\* match to APPROVED
ItemsChangeOnApprovalOnly ==
    (\E id \in 1..Len(items) : items'[id] # items[id]) =>
        \E m \in matches :
            /\ m.match_status = "PENDING"
            /\ [m EXCEPT !.match_status = "APPROVED"] \in matches'

\* C4: with requests processed one after another, a request on a Match that is
\* APPROVED or REJECTED is refused (400), such a Match never changes again, and
\* items change only when a PENDING Match becomes APPROVED.
C4_Terminal ==
    /\ []ResolvedIsRefused
    /\ [][ResolvedStays /\ ItemsChangeOnApprovalOnly]_vars

\* An approved and a rejected Match, each refusing a further request
C4_Witness ==
    /\ \E m \in matches :
          m.match_status = "APPROVED" /\ DecisionRefusal(m.id, m.loser_id) = 400
    /\ \E m \in matches :
          m.match_status = "REJECTED" /\ DecisionRefusal(m.id, m.loser_id) = 400

\* C5: when an approve and a reject request for the same PENDING Match
\* interleave, the status of the Match does not change after the first commit.
C5_SingleTransition ==
    [][\A m \in matches : m.match_status # "PENDING" =>
          \E n \in matches' : n.id = m.id /\ n.match_status = m.match_status]_vars

\* A request of a user who is not the loser of a PENDING match is refused
\* with 403
OthersAreRefused ==
    \A m \in matches : \A u \in Users :
        (m.match_status = "PENDING" /\ u # m.loser_id)
            => DecisionRefusal(m.id, u) = 403

\* Only a request of the loser gets past the checks, and while no request of
\* the loser is past them, the Match and its two items stay as they are
OnlyLoserDecides ==
    /\ \A r \in reqs' \ reqs :
          \E m \in matches : m.id = r.match_id /\ m.loser_id = r.user
    /\ \A m \in matches :
          (\A r \in reqs : r.match_id # m.id) =>
              /\ m \in matches'
              /\ (\A x \in matches : x.id = m.id \/ x \in matches') =>
                    /\ items'[m.lost_item_id] = items[m.lost_item_id]
                    /\ items'[m.found_item_id] = items[m.found_item_id]

\* C6: approve and reject by a user who is not the loser of the Match fail
\* with 403 and change nothing: the status of the Match and the flags of its
\* items change only through a request of the loser.
C6_NotLoserRefused == []OthersAreRefused /\ [][OnlyLoserDecides]_vars

\* The finder, who is not the loser, is refused on a PENDING match
C6_Witness ==
    \E m \in matches :
        /\ m.match_status = "PENDING"
        /\ m.finder_id # m.loser_id
        /\ DecisionRefusal(m.id, m.finder_id) = 403

\* The step commits the approve request r
ApproveCommitted(r) == r.op = "approve" /\ r \notin reqs'

\* What the commit of an approval of match m changes, and what it leaves
ApprovalEffect(m) ==
    /\ matches' = (matches \ {m}) \cup {[m EXCEPT !.match_status = "APPROVED"]}
    /\ Len(items') = Len(items)
    /\ \A id \in 1..Len(items) :
          IF id = m.lost_item_id \/ id = m.found_item_id
          THEN items'[id] = [items[id] EXCEPT !.is_active = FALSE,
                                              !.has_match_found = TRUE]
          ELSE items'[id] = items[id]

\* C7: the commit of an approval sets the Match to APPROVED and both of its
\* items to is_active = false and has_match_found = true, and modifies no other
\* Match and no other item.
C7_ApprovalEffect ==
    [][\A r \in reqs : ApproveCommitted(r) =>
          \A m \in matches : m.id = r.match_id => ApprovalEffect(m)]_vars

\* An approved Match with both items archived, beside a Match that is still
\* PENDING and an item that is still active
C7_Witness ==
    \E m \in matches :
        /\ m.match_status = "APPROVED"
        /\ ~items[m.lost_item_id].is_active /\ items[m.lost_item_id].has_match_found
        /\ ~items[m.found_item_id].is_active /\ items[m.found_item_id].has_match_found
        /\ \E other \in matches : other.match_status = "PENDING"
        /\ \E id \in 1..Len(items) : items[id].is_active /\ ~items[id].has_match_found

\* Every row of run i is committed
RunCommitted(i) == \A row \in RunRows(i) : \E m \in matches : m.id = row.id

\* notify_match_created was called for every row of run i
RunNotified(i) == \A row \in RunRows(i) : row.id \in notified

\* A run that is notifying goes on to its commit, whatever the notifications do
NotifyNeverFails ==
    \A i \in ItemIds : task[i].pc = "notify" => task'[i].pc \in {"notify", "commit"}

\* C8: a run whose notifications raised still calls the notification for each
\* of its matches and commits every one of them.
C8_NotifyFailureSwallowed ==
    /\ [](\A i \in ItemIds :
            /\ task[i].pc = "commit" => RunNotified(i)
            /\ task[i].pc = "done" => RunNotified(i) /\ RunCommitted(i))
    /\ [][NotifyNeverFails]_vars

\* A finished run of two matches, with a notification that raised
C8_Witness ==
    \E i \in ItemIds :
        /\ task[i].pc = "done"
        /\ task[i].notify_failed
        /\ Len(task[i].matches_to_create) = 2
        /\ RunCommitted(i)

\* C9: every persisted Match has a confidence_score in [0,1].
C9_ConfidenceInUnitInterval ==
    \A m \in matches :
        RGe(m.confidence_score, RZero) /\ RLe(m.confidence_score, ROne)

\* C10: a candidate whose base score is below 0.9 x threshold has a final
\* score equal to its base score, whatever the two locations, and is not kept.
C10_BoostIsGated ==
    (/\ probe.pc = "scored"
     /\ probe.weighted_scores # <<>>
     /\ RLt(probe.base_score, RMul(Rat(9, 10), match_confidence_threshold)))
        => probe.final_score = probe.base_score /\ ~probe.kept

\* A candidate below the gate that the boost alone would have raised
C10_Witness ==
    /\ probe.pc = "scored"
    /\ probe.weighted_scores # <<>>
    /\ RLt(probe.base_score, RMul(Rat(9, 10), match_confidence_threshold))
    /\ RGe(probe.base_score, Rat(1, 2))
    /\ RGt(get_location_proximity(probe.new_item.location,
                                   probe.candidate.location, std_order), Rat(1, 2))

\* The sequence ws holds the pair x
InSeq(x, ws) == \E j \in 1..Len(ws) : ws[j] = x

\* C11: whenever the image-image sub-score of a candidate is present, its base
\* score is at least that sub-score x 1.05 and at least the weighted average
\* of the sub-scores that are present.
C11_ImageBoostFloor ==
    (/\ probe.pc = "scored"
     /\ score_ii(probe.new_item, probe.candidate) # NoScore)
        => /\ RGe(probe.base_score,
                  RMul(score_ii(probe.new_item, probe.candidate), Rat(105, 100)))
           /\ RGe(probe.base_score, WeightedAverage(probe.weighted_scores))

\* A vector that is present and not of zero norm
Usable(v) == v # NoVector /\ Norm(v) # 0

\* The cosine of two usable vectors is in weighted_scores with the weight
CosineCounts(vector_a, vector_b, weight, ws) ==
    (Usable(vector_a) /\ Usable(vector_b))
        => InSeq(<<_cosine_similarity_fast(vector_a, vector_b), weight>>, ws)

\* C12: a sub-score is left out of the weighted average only when one of its
\* vectors is absent or of zero norm; a negative cosine of two usable vectors
\* takes part in the average with its weight.
C12_NegativeCosineCounts ==
    probe.pc = "scored" =>
        LET n == probe.new_item
            c == probe.candidate
            ws == probe.weighted_scores
        IN  /\ CosineCounts(n.image_vector, c.image_vector, WEIGHT_IMAGE_IMAGE, ws)
            /\ CosineCounts(n.description_clip_vector, c.image_vector,
                            WEIGHT_TEXT_IMAGE, ws)
            /\ CosineCounts(n.image_vector, c.description_clip_vector,
                            WEIGHT_IMAGE_TEXT, ws)
            /\ CosineCounts(n.description_vector, c.description_vector,
                            WEIGHT_TEXT_TEXT, ws)

\* Item `lost` is a lost item without image, item `found` a found item with an
\* image reported before it, they are the only items, the run of the found
\* item built nothing and the run of the lost item is over
SoleSignalCase(lost, found) ==
    /\ Len(items) = 2
    /\ found < lost
    /\ items[lost].status = "LOST" /\ items[lost].image_vector = NoVector
    /\ items[found].status = "FOUND" /\ items[found].image_vector # NoVector
    /\ task[found].pc = "done" /\ task[found].matches_to_create = <<>>
    /\ task[lost].pc \in {"done", "failed"}

\* C13: a lost item without image and the only found item, whose image is at
\* text-image similarity >= threshold from it, get exactly one PENDING Match
\* whose confidence is the text-image score, whatever the text-text similarity.
C13_SoleSignal ==
    \A lost, found \in 1..Len(items) :
        (/\ SoleSignalCase(lost, found)
         /\ score_ti(items[lost], items[found]) # NoScore
         /\ RGe(score_ti(items[lost], items[found]), match_confidence_threshold))
            => matches = {Match(lost, lost, found,
                                items[lost].reported_by_user_id,
                                items[found].reported_by_user_id,
                                score_ti(items[lost], items[found]))}

C15_LoserAndFinder ==
    /\ \A i \in ItemIds : \A m \in RunRows(i) : m.match_status = "PENDING"
    /\ \A m \in matches \cup UNION {RunRows(i) : i \in ItemIds} :
            /\ m.loser_id = items[m.lost_item_id].reported_by_user_id
            /\ m.finder_id = items[m.found_item_id].reported_by_user_id

\* Two committed matches between different users, one built by the run of its
\* found item and one by the run of its lost item
C15_Witness ==
    /\ \E m \in matches : m.id[3] = m.found_item_id /\ m.loser_id # m.finder_id
    /\ \E m \in matches : m.id[3] = m.lost_item_id /\ m.loser_id # m.finder_id

\* The candidates of a list that the truncation cut
Cut(scored, kept) ==
    {scored[j] : j \in {i \in 1..Len(scored) : ~InSeq(scored[i], kept)}}

\* C16: a run builds at most max_matches_returned Matches; the candidates kept
\* after the sort and the truncation are candidates that passed the threshold,
\* as many as passed up to max_matches_returned, and every candidate cut has a
\* score less than or equal to that of every candidate kept.
C16_HighestKept ==
    probe.pc = "creating" =>
        LET kept == probe.candidate_scores
        IN  /\ probe.created <= max_matches_returned
            /\ Len(kept) = IF Len(probe.scored) > max_matches_returned
                           THEN max_matches_returned ELSE Len(probe.scored)
            /\ \A j \in 1..Len(kept) : InSeq(kept[j], probe.scored)
            /\ \A cut \in Cut(probe.scored, kept) : \A j \in 1..Len(kept) :
                    RLe(cut[2], kept[j][2])

\* A run over more than max_matches_returned candidates that were not in score
\* order has built max_matches_returned Matches, and a candidate cut scores
\* less than a candidate kept
C16_Witness ==
    /\ probe.pc = "creating"
    /\ Len(probe.scored) > max_matches_returned
    /\ \E j \in 1..(Len(probe.scored) - 1) :
            RLt(probe.scored[j][2], probe.scored[j + 1][2])
    /\ probe.k > Len(probe.candidate_scores)
    /\ probe.created = max_matches_returned
    /\ \E cut \in Cut(probe.scored, probe.candidate_scores) :
            \E j \in 1..Len(probe.candidate_scores) :
                RLt(cut[2], probe.candidate_scores[j][2])

\* Request r is a reject request that this step commits
RejectCommitted(r) == r \in reqs /\ r.op = "reject" /\ r \notin reqs'

\* C17: the step that commits a reject request sets the status of the match of
\* the request to REJECTED and changes nothing else: the rows of the items
\* table, with their is_active and has_match_found flags, and every other
\* Match stay as they are.
C17_RejectChangesStatusOnly ==
    [][\A r \in reqs : RejectCommitted(r) =>
            /\ items' = items
            /\ matches' = {IF m.id = r.match_id
                           THEN [m EXCEPT !.match_status = "REJECTED"]
                           ELSE m : m \in matches}]_vars

\* A rejected match whose items are still active and unflagged, next to a
\* match that is still pending
C17_Witness ==
    /\ \E m \in matches :
            /\ m.match_status = "REJECTED"
            /\ items[m.lost_item_id].is_active
            /\ items[m.found_item_id].is_active
            /\ ~items[m.lost_item_id].has_match_found
            /\ ~items[m.found_item_id].has_match_found
    /\ \E m \in matches : m.match_status = "PENDING"

\* This step is a step of a matching run: a task moves and no item is reported
RunStep == task' # task /\ Len(items') = Len(items)

\* This step commits an approve request
ApprovalCommitted == \E r \in reqs : r.op = "approve" /\ r \notin reqs'

\* This step is a manual resolve of lost item id: the item is archived and
\* no run, match or request moves
ManualResolve(id) ==
    /\ items[id].status = "LOST"
    /\ ~items'[id].is_active
    /\ task' = task
    /\ matches' = matches
    /\ reqs' = reqs

\* C18: a step of a matching run leaves the items table as it is and keeps
\* every committed Match as it is (it can only add rows); has_match_found of an
\* item changes only in a step that commits an approval, and is_active only in
\* such a step or in a manual resolve.
C18_RunOnlyInserts ==
    [][/\ RunStep => (items' = items /\ matches \subseteq matches')
       /\ \A id \in 1..Len(items) :
            /\ items'[id].has_match_found # items[id].has_match_found
                    => ApprovalCommitted
            /\ items'[id].is_active # items[id].is_active
                    => (ApprovalCommitted \/ ManualResolve(id))]_vars

\* A run has committed a Match that is still pending, of a lost item that was
\* resolved by hand: the item is archived and not flagged as matched, and the
\* found item is untouched
C18_Witness ==
    \E i \in ItemIds :
        /\ task[i].pc = "done"
        /\ \E m \in RunRows(i) :
                /\ m \in matches
                /\ ~items[m.lost_item_id].is_active
                /\ ~items[m.lost_item_id].has_match_found
                /\ items[m.found_item_id].is_active
                /\ ~items[m.found_item_id].has_match_found

\* C20: every persisted item has an image vector if and only if an image was
\* supplied when it was reported (it has an image_url), and every FOUND item
\* has an image vector.
C20_ImageVectorIffImage ==
    \A id \in 1..Len(items) :
        /\ (items[id].image_vector # NoVector) <=> items[id].image_url
        /\ items[id].status = "FOUND" => items[id].image_vector # NoVector

\* C19: a Match that is APPROVED is not deleted by any step, and neither are
\* its two items, however delete requests and approve requests interleave.
C19_ApprovedNeverDeleted ==
    [][\A m \in matches : m.match_status = "APPROVED" =>
            /\ \E n \in matches' : n.id = m.id
            /\ items'[m.lost_item_id].status # "DELETED"
            /\ items'[m.found_item_id].status # "DELETED"]_vars

\* The APPROVED matches an item takes part in
ApprovedMatchesOf(id) ==
    {m \in matches :
        /\ m.match_status = "APPROVED"
        /\ m.lost_item_id = id \/ m.found_item_id = id}

\* C24: every item takes part in at most one APPROVED Match.
C24_OneApprovalPerItem ==
    \A id \in 1..Len(items) : Cardinality(ApprovedMatchesOf(id)) <= 1

\* C28: an item is flagged has_match_found exactly when it takes part in an
\* APPROVED Match, and every flagged item is inactive.
C28_FlagIffApproved ==
    \A id \in 1..Len(items) :
        /\ items[id].has_match_found <=> ApprovedMatchesOf(id) # {}
        /\ items[id].has_match_found => ~items[id].is_active

\* C29: the final score of a pair is the same whichever of the two items is
\* the new item of the run and whichever the candidate.
C29_ScoreIsSymmetric ==
    (probe.pc = "scored" /\ probe.weighted_scores # <<>>)
        => /\ weighted_scores(probe.candidate, probe.new_item) # <<>>
           /\ probe.final_score =
                  final_score(probe.candidate, probe.new_item,
                              match_confidence_threshold, std_order)

\* C30: no Match, committed or held by a run, has the same user as loser and
\* as finder.
C30_LoserIsNotFinder ==
    \A m \in matches \cup UNION {RunRows(i) : i \in ItemIds} :
        m.loser_id # m.finder_id

\* The match of this id is in the matches table
Persisted(id) == \E m \in matches : m.id = id

\* The run that built the match of this id holds it, inserted, and is at its
\* commit
AtCommit(id) ==
    /\ task[id[3]].pc = "commit"
    /\ \E row \in Uncommitted(id[3]) : row.id = id

\* A run at its commit stays there or ends done, with its rows committed
CommitSucceeds ==
    \A i \in ItemIds : task[i].pc = "commit" =>
        \/ task'[i] = task[i]
        \/ task'[i].pc = "done" /\ Uncommitted(i) \subseteq matches'

\* C26: a Match whose notification was dispatched is committed, or its run
\* holds it and has only its commit left, which cannot fail: no run ends,
\* done or failed, with a notified Match that is not committed.
C26_NotifiedIsCommitted ==
    /\ [](\A id \in notified : Persisted(id) \/ AtCommit(id))
    /\ [][CommitSucceeds]_vars

\* A run has dispatched its notifications and is done, its Match committed
C26_Witness ==
    \E id \in notified : task[id[3]].pc = "done" /\ Persisted(id)

\* C27: once the Match of a pair is REJECTED, no step leaves a PENDING Match
\* of that pair in the matches table.
C27_RejectedNotProposedAgain ==
    [][\A m \in matches : m.match_status = "REJECTED" =>
            \A n \in matches' : PairOf(n) = PairOf(m) => n.match_status # "PENDING"]_vars

\* A run is about to check a pair whose Match is REJECTED
C27_Witness ==
    \E i \in ItemIds :
        /\ task[i].pc = "checking"
        /\ \E m \in matches :
                m.match_status = "REJECTED" /\ PairOf(m) = CandidatePair(i)

\* The scores of a list of (item, score) pairs do not increase
IsSortedDescending(results) ==
    \A j \in 1..(Len(results) - 1) : RGe(results[j][2], results[j + 1][2])

\* C21: every pair search_items_hybrid returns has a score that is at least
\* min_score, the list is sorted by score descending and has at most limit
\* entries, with and without a query vector.
C21_HybridResults ==
    probe.pc \in {"searched", "admin_searched"} =>
        /\ \A j \in 1..Len(probe.results) : RGe(probe.results[j][2], probe.min_score)
        /\ IsSortedDescending(probe.results)
        /\ Len(probe.results) <= probe.limit

\* The request of a finished search had a usable query and a query vector
WithQueryVector ==
    /\ probe.pc \in {"searched", "admin_searched"}
    /\ ~probe.request.blank
    /\ probe.request.query_vector # NoVector

\* The item passes the filters of the finished search
Eligible(id) ==
    /\ \/ items[id].is_active
       \/ probe.pc = "admin_searched" /\ probe.request.include_archived
    /\ \/ probe.request.status_filter = "none"
       \/ items[id].status = probe.request.status_filter

\* The fuzzy and the vector score of an item for the request
FuzzyOf(id) ==
    LET best == RMax(items[id].desc_score, items[id].loc_score)
    IN  IF items[id].contains /\ RLt(best, Rat(9, 10)) THEN Rat(9, 10) ELSE best

VectorOf(id) ==
    _cosine_similarity_fast(items[id].description_vector, probe.request.query_vector)

\* The pools: the eligible items whose sub-score is at least 0.15
InFuzzyPool(id) == Eligible(id) /\ RGe(FuzzyOf(id), Rat(15, 100))
InVectorPool(id) == Eligible(id) /\ RGe(VectorOf(id), Rat(15, 100))

\* fuzzy x 0.4 + vector x 0.6, with 0.0 for the pool the item is absent from
ExpectedScore(id) ==
    RAdd(RMul(IF InFuzzyPool(id) THEN FuzzyOf(id) ELSE RZero, Rat(4, 10)),
         RMul(IF InVectorPool(id) THEN VectorOf(id) ELSE RZero, Rat(6, 10)))

\* C22: with a query vector, every pair of the hybrid result is an item of one
\* of the pools with the score fuzzy x 0.4 + vector x 0.6 (0.0 for a pool it is
\* absent from), which is at least min_score; and every item of the pools
\* whose score is at least min_score is in the result, unless the result is
\* full (limit entries) with scores that are all at least its score.
C22_CombinedScore ==
    WithQueryVector =>
        /\ \A j \in 1..Len(probe.results) :
                LET id == probe.results[j][1]
                IN  /\ InFuzzyPool(id) \/ InVectorPool(id)
                    /\ probe.results[j][2] = ExpectedScore(id)
                    /\ RGe(ExpectedScore(id), probe.min_score)
        /\ \A id \in 1..Len(items) :
                (/\ InFuzzyPool(id) \/ InVectorPool(id)
                 /\ RGe(ExpectedScore(id), probe.min_score))
                    => \/ \E j \in 1..Len(probe.results) : probe.results[j][1] = id
                       \/ /\ Len(probe.results) = probe.limit
                          /\ \A j \in 1..Len(probe.results) :
                                RGe(probe.results[j][2], ExpectedScore(id))

\* An item with fuzzy score 0.9 that is absent from the vector pool is kept
\* with the score 0.36, beside an item that is in the vector pool only
C22_Witness ==
    /\ WithQueryVector
    /\ \E j \in 1..Len(probe.results) :
            /\ FuzzyOf(probe.results[j][1]) = Rat(9, 10)
            /\ ~InVectorPool(probe.results[j][1])
            /\ probe.results[j][2] = Rat(36, 100)
    /\ \E j \in 1..Len(probe.results) :
            /\ ~InFuzzyPool(probe.results[j][1])
            /\ InVectorPool(probe.results[j][1])

\* An admin search with a usable query that augments its results
AdminSearched ==
    /\ probe.pc = "admin_searched"
    /\ ~probe.request.blank
    /\ probe.request.include_matches

InResults(results, id) == \E j \in 1..Len(results) : results[j][1] = id

\* The item was not retrieved by the hybrid search and is, in an APPROVED
\* Match, the partner of an item that was
PartnerOfResult(id) ==
    /\ ~InResults(probe.results, id)
    /\ \E m \in matches :
            /\ m.match_status = "APPROVED"
            /\ \/ m.lost_item_id = id /\ InResults(probe.results, m.found_item_id)
               \/ m.found_item_id = id /\ InResults(probe.results, m.lost_item_id)

\* max(min_score, 0.85 x mean of the hybrid result scores)
SyntheticScore ==
    LET scores == [j \in 1..Len(probe.results) |-> probe.results[j][2]]
        average == RDiv(RSum(scores), Rat(Len(scores), 1))
        scaled == RMul(average, Rat(85, 100))
    IN  IF RLt(scaled, probe.min_score) THEN probe.min_score ELSE scaled

\* Every entry is a hybrid result with its score or a partner with the
\* synthetic score
EntriesAreResultsOrPartners ==
    \A j \in 1..Len(probe.admin_results) :
        LET entry == probe.admin_results[j]
        IN  \/ \E k \in 1..Len(probe.results) : probe.results[k] = entry
            \/ PartnerOfResult(entry[1]) /\ entry[2] = SyntheticScore

\* C23 as stated: the admin search returns every hybrid result, and every
\* partner of a hybrid result with the synthetic score, and nothing else.
C23_AdminReturnsAllPartners ==
    AdminSearched =>
        /\ \A k \in 1..Len(probe.results) :
                \E j \in 1..Len(probe.admin_results) :
                    probe.admin_results[j] = probe.results[k]
        /\ \A id \in 1..Len(items) : PartnerOfResult(id) =>
                \E j \in 1..Len(probe.admin_results) :
                    probe.admin_results[j] = <<id, SyntheticScore>>
        /\ EntriesAreResultsOrPartners

\* The pair is in the list, or the list is full with scores at least its own
InOrCut(entry, limit) ==
    \/ \E j \in 1..Len(probe.admin_results) : probe.admin_results[j] = entry
    \/ /\ Len(probe.admin_results) = limit
       /\ \A j \in 1..Len(probe.admin_results) :
              RGe(probe.admin_results[j][2], entry[2])

\* C23, amended: the admin search returns the first `limit` entries, by score
\* descending, of the hybrid results plus the partners of hybrid results with
\* the synthetic score; what is left out was cut at the limit by entries that
\* score at least as much; every entry is a hybrid result or such a partner,
\* and no item is listed twice.
C23_AdminReturnsTopOfResultsAndPartners ==
    AdminSearched =>
        /\ Len(probe.admin_results) <= probe.request.limit
        /\ IsSortedDescending(probe.admin_results)
        /\ EntriesAreResultsOrPartners
        /\ \A j, k \in 1..Len(probe.admin_results) :
                probe.admin_results[j][1] = probe.admin_results[k][1] => j = k
        /\ \A k \in 1..Len(probe.results) :
                InOrCut(probe.results[k], probe.request.limit)
        /\ \A id \in 1..Len(items) : PartnerOfResult(id) =>
                InOrCut(<<id, SyntheticScore>>, probe.request.limit)

\* An admin search returned, beside a hybrid result, a partner it added with
\* the synthetic score
C23_Witness ==
    /\ AdminSearched
    /\ \E j \in 1..Len(probe.admin_results) :
            /\ PartnerOfResult(probe.admin_results[j][1])
            /\ probe.admin_results[j][2] = SyntheticScore
    /\ Len(probe.admin_results) > 1

\* This step reports an item: its row is committed, its run is scheduled and
\* has not started, and no other run and no match moves
ReportReturnsBeforeMatching ==
    Len(items') > Len(items) =>
        /\ task'[Len(items')] = [NoTask EXCEPT !.pc = "scheduled"]
        /\ \A i \in ItemIds \ {Len(items')} : task'[i] = task[i]
        /\ matches' = matches

\* A run that fails in this step leaves the items table as it is
FailureKeepsItems ==
    \A i \in ItemIds :
        (task[i].pc # "failed" /\ task'[i].pc = "failed") => items' = items

\* C25: a matching run exists only for an item whose row is committed; the
\* step that reports an item only schedules its run; and a run that fails
\* neither removes nor alters an item.
C25_MatchingIsDetached ==
    /\ [](\A i \in ItemIds : task[i].pc # "none" => i \in 1..Len(items))
    /\ [][ReportReturnsBeforeMatching /\ FailureKeepsItems]_vars

\* A run has failed, and its item is in the table, active and unflagged
C25_Witness ==
    \E i \in 1..Len(items) :
        /\ task[i].pc = "failed"
        /\ items[i].is_active
        /\ ~items[i].has_match_found

====
